---- MODULE Spec2Model ----
(***************************************************************************)
(* Model of the pyts drawing utilities: logo/logo.py (maximum, circle,     *)
(* pyts_time_series, make_pyts_logo) and github_ribbon/github_ribbon.py    *)
(* (make_github_ribbon).                                                   *)
(*                                                                         *)
(* Coordinates are exact decimals with at most three digits, so every      *)
(* length is an integer number of thousandths (0.775 is 775) and every     *)
(* squared length an integer number of millionths.  The square root is     *)
(* truncated to a whole number of thousandths; it is exact wherever the    *)
(* radicand is a perfect square, which is the case at every point the      *)
(* properties below fix a value for (0, r*r).                              *)
(***************************************************************************)
EXTENDS Integers, Sequences, FiniteSets

VARIABLES
    \* ---- pyts_time_series(x): one evaluation on a scalar x ----
    ts_pc,      \* position in pyts_time_series
    ts_x,       \* the argument x
    ts_p,       \* local p  (logo.py:73)
    ts_y,       \* local y  (logo.py:74)
    ts_t,       \* local t  (logo.py:75)
    ts_s,       \* local s  (logo.py:76-77)
    ts_ret,     \* the returned value (logo.py:78)
    sqrt_in,    \* the values handed to np.sqrt so far, in call order
    \* ---- the renderers and the pyplot state they act on ----
    pc,         \* position in the running render call, or "idle"
    fn,         \* the running function
    args,       \* its arguments
    figs,       \* pyplot's registry of open figures (figure numbers)
    current,    \* pyplot's current figure (0: none)
    canvas,     \* figure number -> artists on its axes, in order of addition
    axes,       \* figure number -> view limits and layout of its axes
    owner,      \* the figure the running call created (0: none yet)
    log,        \* the steps the running call has executed, in order
    saves,      \* the savefig calls of the running call
    shows,      \* the number of plt.show() calls of the running call
    error,      \* the error the running call raised ("none": none)
    files,      \* paths written on disk
    ncalls      \* number of render calls started

ts_vars == <<ts_pc, ts_x, ts_p, ts_y, ts_t, ts_s, ts_ret, sqrt_in>>
rd_vars == <<pc, fn, args, figs, current, canvas, axes, owner, log, saves,
             shows, error, files, ncalls>>
vars == <<ts_vars, rd_vars>>

\* ------------------------------------------------------------------------
\* Bounds of the model
\* ------------------------------------------------------------------------
\* The arguments tried are -0.3, -0.299, ..., -0.3 + XSpan / 1000.
XSpan == 1600
MaxCalls == 2

\* ------------------------------------------------------------------------
\* Arithmetic of numpy on one element
\* ------------------------------------------------------------------------
\* IEEE not-a-number: the result of np.sqrt on a negative value.  It is kept
\* apart from every value the curve can take and absorbs + and *.
NaN == -1000000

Add(u, v) == IF u = NaN \/ v = NaN THEN NaN ELSE u + v
Mul(u, v) == IF u = NaN \/ v = NaN THEN NaN ELSE u * v
Neg(u) == IF u = NaN THEN NaN ELSE 0 - u

\* A comparison used as a factor: True is 1, False is 0.
Ind(c) == IF c THEN 1 ELSE 0

RECURSIVE SqrtIter(_, _, _)
SqrtIter(n, lo, hi) ==
    IF lo >= hi THEN lo
    ELSE LET mid == (lo + hi + 1) \div 2
         IN IF mid * mid <= n THEN SqrtIter(n, mid, hi)
                              ELSE SqrtIter(n, lo, mid - 1)

\* np.sqrt: millionths in, thousandths out; NaN below zero.
Sqrt(n) == IF n < 0 THEN NaN ELSE SqrtIter(n, 0, n)

\* ------------------------------------------------------------------------
\* logo.py: maximum, circle, pyts_time_series
\* ------------------------------------------------------------------------
maximum(x) == IF x > 0 THEN x ELSE 0

\* The expression inside maximum(...) at logo.py:54.
radicand(x, r, a, x_lim) ==
    r * r - ((x - a) * (x - a)) * Ind(x >= x_lim[1]) * Ind(x <= x_lim[2])

\* The value handed to np.sqrt at logo.py:53.
sqrt_arg(x, r, a, x_lim) == maximum(radicand(x, r, a, x_lim))

circle_nomask(x, r, a, b, x_lim) ==
    Add(b, Sqrt(sqrt_arg(x, r, a, x_lim)))

circle(x, r, a, b, x_lim) ==
    Mul(Mul(Add(b, Sqrt(sqrt_arg(x, r, a, x_lim))), Ind(x >= x_lim[1])),
        Ind(x <= x_lim[2]))

offset_open(x) == 100 * Ind(x > 900) * Ind(x <= 1200)

\* The term added to s at logo.py:77.
offset(x) == 100 * Ind(x >= 900) * Ind(x <= 1200)

\* The arguments of the three circle calls of pyts_time_series.
lim_p == <<-200, 200>>
lim_y == <<200, 600>>
lim_s == <<775, 900>>

ts_line73 ==
    /\ ts_pc = "p"
    /\ ts_p' = circle(ts_x, 200, 0, 0, lim_p)
    /\ sqrt_in' = Append(sqrt_in, sqrt_arg(ts_x, 200, 0, lim_p))
    /\ ts_pc' = "y"
    /\ UNCHANGED <<ts_x, ts_y, ts_t, ts_s, ts_ret, rd_vars>>

ts_line74 ==
    /\ ts_pc = "y"
    /\ ts_y' = Neg(circle(ts_x, 200, 400, 0, lim_y))
    /\ sqrt_in' = Append(sqrt_in, sqrt_arg(ts_x, 200, 400, lim_y))
    /\ ts_pc' = "t"
    /\ UNCHANGED <<ts_x, ts_p, ts_t, ts_s, ts_ret, rd_vars>>

ts_line75 ==
    /\ ts_pc = "t"
    /\ ts_t' = 0
    /\ ts_pc' = "s"
    /\ UNCHANGED <<ts_x, ts_p, ts_y, ts_s, ts_ret, sqrt_in, rd_vars>>

ts_line76 ==
    /\ ts_pc = "s"
    /\ ts_s' = circle(ts_x, 125, 900, -25, lim_s)
    /\ sqrt_in' = Append(sqrt_in, sqrt_arg(ts_x, 125, 900, lim_s))
    /\ ts_pc' = "s_offset"
    /\ UNCHANGED <<ts_x, ts_p, ts_y, ts_t, ts_ret, rd_vars>>

ts_line77 ==
    /\ ts_pc = "s_offset"
    /\ ts_s' = Add(ts_s, offset(ts_x))
    /\ ts_pc' = "return"
    /\ UNCHANGED <<ts_x, ts_p, ts_y, ts_t, ts_ret, sqrt_in, rd_vars>>

ts_line78 ==
    /\ ts_pc = "return"
    /\ ts_ret' = Add(Add(Add(ts_p, ts_y), ts_t), ts_s)
    /\ ts_pc' = "done"
    /\ UNCHANGED <<ts_x, ts_p, ts_y, ts_t, ts_s, sqrt_in, rd_vars>>

\* ------------------------------------------------------------------------
\* What the plotting library accepts
\* ------------------------------------------------------------------------
None == "None"

Colors == {"darkslategray", "notacolor"}
TextColors == {"white", "notacolor"}
Cmaps == {"jet", "notacmap"}
Figsizes == {<<3, 3>>, <<0, 0>>}
Paths == {None, "out.png", "/missing/out.png"}
Dpis == {400, 0}

valid_color(c) == c \in {"darkslategray", "white"}
valid_cmap(c) == c = "jet"
valid_figsize(s) == s[1] > 0 /\ s[2] > 0
valid_dpi(d) == d > 0
writable(path) == path = "out.png"

\* ------------------------------------------------------------------------
\* github_ribbon.py and logo.py: the statements of the two renderers
\* ------------------------------------------------------------------------
ribbon_program_show_first ==
    <<"figure", "polygon", "text", "dashes", "limits", "show", "save">>

ribbon_program ==
    <<"figure", "polygon", "text", "dashes", "limits", "save", "show">>

logo_program ==
    <<"figure", "p", "y", "t", "s", "curve", "fix", "limits", "layout",
      "save", "show">>

program(f) == IF f = "ribbon" THEN ribbon_program ELSE logo_program

index_of(seq, e) == CHOOSE i \in DOMAIN seq : seq[i] = e

\* The statement control reaches after `step` completes.
succ(f, step) ==
    LET i == index_of(program(f), step)
    IN IF i = Len(program(f)) THEN "returned" ELSE program(f)[i + 1]

wants_save_always(a) == TRUE

\* `if output_file is not None:` (github_ribbon.py:69, logo.py:185)
wants_save(a) == a.output_file # None

\* The errors the library call(s) of a statement raise for the arguments.
failure(f, step, a) ==
    IF step = "save"
    THEN IF ~wants_save(a) THEN {}
         ELSE (IF valid_dpi(a.dpi) THEN {} ELSE {"ValueError"})
              \cup (IF writable(a.output_file) THEN {} ELSE {"OSError"})
    ELSE IF f = "ribbon"
    THEN IF step = "figure" /\ ~valid_figsize(a.figsize) THEN {"ValueError"}
         ELSE IF step = "polygon" /\ ~valid_color(a.background_color)
              THEN {"ValueError"}
         ELSE IF step \in {"text", "dashes"} /\ ~valid_color(a.text_color)
              THEN {"ValueError"}
         ELSE {}
    ELSE IF step \in {"p", "y", "t", "s", "fix"}
            /\ ~valid_color(a.background_color) THEN {"ValueError"}
         ELSE IF step = "curve" /\ ~valid_cmap(a.cmap) THEN {"ValueError"}
         ELSE {}

no_error == [step |-> "none", kind |-> "none"]

\* An exception caught and dropped: the call goes on with the next statement.
swallowed(step, e) ==
    /\ pc' = succ(fn, step)
    /\ error' = error

\* An exception leaves the function: nothing in either renderer catches it.
raised(step, e) ==
    /\ pc' = "raised"
    /\ error' = [step |-> step, kind |-> e]

completed(step) ==
    /\ pc' = succ(fn, step)
    /\ error' = error

\* ---- artists ----
zorder_patch == 1
zorder_line == 2
zorder_text == 3

artist(name, part, kind, zorder, lw, cap, xy) ==
    [name |-> name, part |-> part, kind |-> kind, zorder |-> zorder,
     lw |-> lw, cap |-> cap, xy |-> xy]

\* zip(x, y)
zip(x, y) ==
    [i \in 1..(IF Len(x) < Len(y) THEN Len(x) ELSE Len(y)) |-> <<x[i], y[i]>>]

new_axes == [xlim |-> <<0, 1000>>, ylim |-> <<0, 1000>>, tight |-> FALSE]

\* plt.figure / plt.subplots: a new figure is registered under the next free
\* number and becomes the current figure.
new_figure ==
    LET num == IF figs = {} THEN 1
               ELSE (CHOOSE m \in figs : \A k \in figs : k <= m) + 1
    IN /\ figs' = figs \cup {num}
       /\ current' = num
       /\ owner' = num
       /\ canvas' = [f \in figs \cup {num} |->
                        IF f = num THEN <<>> ELSE canvas[f]]
       /\ axes' = [f \in figs \cup {num} |->
                        IF f = num THEN new_axes ELSE axes[f]]

\* plt.savefig acts on the current figure.
savefig_default_dpi(path, dpi, transparent) ==
    /\ saves' = Append(saves, [path |-> path, dpi |-> 100,
                               transparent |-> transparent, fig |-> current])
    /\ files' = files \cup {path}

savefig(path, dpi, transparent) ==
    /\ saves' = Append(saves, [path |-> path, dpi |-> dpi,
                               transparent |-> transparent, fig |-> current])
    /\ files' = files \cup {path}

\* plt.show(): the figure is displayed.  A blocking window backend returns
\* once every window is closed, which destroys every open figure (so does an
\* inline backend); a non-interactive backend returns with the registry as
\* it was.
show ==
    /\ shows' = shows + 1
    /\ \/ UNCHANGED <<figs, current, canvas, axes>>
       \/ /\ figs' = {}
          /\ current' = 0
          /\ canvas' = [f \in {} |-> <<>>]
          /\ axes' = [f \in {} |-> new_axes]

\* One statement: it is logged, its library calls either raise or take effect.
\* `effect` sets the variables of `touched`; the rest is left alone.
begin_step(f, step) ==
    /\ pc = step
    /\ fn = f
    /\ log' = Append(log, step)
    /\ UNCHANGED <<fn, args, ncalls, ts_vars>>

\* ---- make_github_ribbon ----
left == 300
center == 400
right == 600
epsilon == 5

ribbon_x_triangle == <<left, right, right>>

ribbon_x == <<left, center, right, right>>
ribbon_y == <<right, right, center, left>>

make_github_ribbon(a) ==
    /\ pc = "idle"
    /\ ncalls < MaxCalls
    /\ ncalls' = ncalls + 1
    /\ fn' = "ribbon"
    /\ args' = a
    /\ pc' = ribbon_program[1]
    /\ owner' = 0
    /\ log' = <<>>
    /\ saves' = <<>>
    /\ shows' = 0
    /\ error' = no_error
    /\ UNCHANGED <<figs, current, canvas, axes, files, ts_vars>>

rb_figure ==
    /\ begin_step("ribbon", "figure")
    /\ IF failure(fn, "figure", args) # {}
       THEN /\ \E e \in failure(fn, "figure", args) : raised("figure", e)
            /\ UNCHANGED <<figs, current, owner, canvas, axes>>
       ELSE /\ new_figure
            /\ completed("figure")
    /\ UNCHANGED <<saves, shows, files>>

rb_polygon ==
    /\ begin_step("ribbon", "polygon")
    /\ IF failure(fn, "polygon", args) # {}
       THEN /\ \E e \in failure(fn, "polygon", args) : raised("polygon", e)
            /\ UNCHANGED canvas
       ELSE /\ canvas' = [canvas EXCEPT ![owner] =
                Append(@, artist("polygon", "ribbon", "Polygon", zorder_patch,
                                 0, "default", zip(ribbon_x, ribbon_y)))]
            /\ completed("polygon")
    /\ UNCHANGED <<figs, current, owner, axes, saves, shows, files>>

rb_text ==
    /\ begin_step("ribbon", "text")
    /\ IF failure(fn, "text", args) # {}
       THEN /\ \E e \in failure(fn, "text", args) : raised("text", e)
            /\ UNCHANGED canvas
       ELSE /\ canvas' = [canvas EXCEPT ![current] =
                Append(@, artist("text", "text", "Text", zorder_text,
                                 0, "default", <<<<475, 475>>>>))]
            /\ completed("text")
    /\ UNCHANGED <<figs, current, owner, axes, saves, shows, files>>

rb_dashes ==
    /\ begin_step("ribbon", "dashes")
    /\ IF failure(fn, "dashes", args) # {}
       THEN /\ \E e \in failure(fn, "dashes", args) : raised("dashes", e)
            /\ UNCHANGED canvas
       ELSE /\ canvas' = [canvas EXCEPT ![current] = @ \o
                <<artist("dash_outer", "dashes", "Line2D", zorder_line, 6,
                         "default",
                         zip(<<left + epsilon, right>>,
                             <<right, left + epsilon>>)),
                  artist("dash_inner", "dashes", "Line2D", zorder_line, 6,
                         "default",
                         zip(<<center - epsilon, right>>,
                             <<right, center - epsilon>>))>>]
            /\ completed("dashes")
    /\ UNCHANGED <<figs, current, owner, axes, saves, shows, files>>

rb_limits ==
    /\ begin_step("ribbon", "limits")
    /\ axes' = [axes EXCEPT ![current].xlim = <<left, right>>,
                            ![current].ylim = <<left, right>>]
    /\ completed("limits")
    /\ UNCHANGED <<figs, current, owner, canvas, saves, shows, files>>

rb_save ==
    /\ begin_step("ribbon", "save")
    /\ IF ~wants_save(args)
       THEN /\ completed("save")
            /\ UNCHANGED <<saves, files>>
       ELSE IF failure(fn, "save", args) # {}
       THEN /\ \E e \in failure(fn, "save", args) : raised("save", e)
            /\ UNCHANGED <<saves, files>>
       ELSE /\ savefig(args.output_file, args.dpi, TRUE)
            /\ completed("save")
    /\ UNCHANGED <<figs, current, owner, canvas, axes, shows>>

rb_show ==
    /\ begin_step("ribbon", "show")
    /\ show
    /\ completed("show")
    /\ UNCHANGED <<owner, saves, files>>

\* ---- make_pyts_logo ----
\* Stroke widths are in tenths of a point: linewidth = 20 is 200.
linewidth == 200

line_params_butt == [lw |-> linewidth, cap |-> "butt"]

\* line_params / arc_params (logo.py:112-115): width and cap style.
line_params == [lw |-> linewidth, cap |-> "round"]
arc_params == [lw |-> linewidth, cap |-> "round"]

curve_zorder_default == zorder_patch

\* zorder of the LineCollection (logo.py:164)
curve_zorder == 3

line2d(name, xs, ys) ==
    artist(name, "letter", "Line2D", zorder_line, line_params.lw,
           line_params.cap, zip(xs, ys))

arc(name, xy) ==
    artist(name, "letter", "Arc", zorder_patch, arc_params.lw,
           arc_params.cap, <<xy>>)

\* np.linspace(-0.2, 1.2, 800) gives 800 points, hence 799 segments.
n_points == 800

make_pyts_logo(a) ==
    /\ pc = "idle"
    /\ ncalls < MaxCalls
    /\ ncalls' = ncalls + 1
    /\ fn' = "logo"
    /\ args' = a
    /\ pc' = logo_program[1]
    /\ owner' = 0
    /\ log' = <<>>
    /\ saves' = <<>>
    /\ shows' = 0
    /\ error' = no_error
    /\ UNCHANGED <<figs, current, canvas, axes, files, ts_vars>>

lg_figure ==
    /\ begin_step("logo", "figure")
    /\ new_figure
    /\ completed("figure")
    /\ UNCHANGED <<saves, shows, files>>

\* A group of artists built and added to ax; building the first one raises
\* when the library rejects an argument, before anything is added.
lg_add(step, artists) ==
    /\ begin_step("logo", step)
    /\ IF failure(fn, step, args) # {}
       THEN /\ \E e \in failure(fn, step, args) : raised(step, e)
            /\ UNCHANGED canvas
       ELSE /\ canvas' = [canvas EXCEPT ![owner] = @ \o artists]
            /\ completed(step)
    /\ UNCHANGED <<figs, current, owner, axes, saves, shows, files>>

lg_p ==
    /\ pc = "p"
    /\ lg_add("p", <<arc("arc_p", <<0, 0>>),
                  line2d("line_p", <<-200, -200>>, <<-600, 200>>)>>)

lg_y ==
    /\ pc = "y"
    /\ lg_add("y", <<line2d("line_left_y", <<200, 200>>, <<0, 150>>),
                  line2d("line_right_y", <<600, 600>>, <<150, -400>>),
                  arc("arc_lower_y", <<400, -400>>)>>)

lg_t ==
    /\ pc = "t"
    /\ lg_add("t", <<arc("arc_t", <<700, -300>>),
                  line2d("line_middle_t", <<500, 600>>, <<0, 0>>),
                  line2d("line_lower_t", <<700, 900>>, <<-400, -400>>)>>)

lg_s ==
    /\ pc = "s"
    /\ lg_add("s", <<arc("arc_lower_s", <<900, -275>>),
                  artist("arc_upper_s", "letter", "Arc", 2, linewidth,
                         "butt", <<<<900, -25>>>>)>>)

lg_curve ==
    /\ pc = "curve"
    /\ lg_add("curve", <<artist("lc", "curve", "LineCollection", curve_zorder,
                             linewidth, "round",
                             <<<<-200, 1200>>, <<n_points - 1, 0>>>>)>>)

lg_fix ==
    /\ pc = "fix"
    /\ lg_add("fix", <<artist("arc_upper_s", "fix", "Arc", 4,
                           (11 * linewidth) \div 10, "butt",
                           <<<<854, -50>>>>),
                    artist("rectangle_patch", "fix", "Rectangle", 5, 0,
                           "default", <<<<831, -50>>>>)>>)

lg_limits ==
    /\ begin_step("logo", "limits")
    /\ axes' = [axes EXCEPT ![current].xlim = <<-250, 1250>>,
                            ![current].ylim = <<-650, 250>>]
    /\ completed("limits")
    /\ UNCHANGED <<figs, current, owner, canvas, saves, shows, files>>

lg_layout ==
    /\ begin_step("logo", "layout")
    /\ axes' = [axes EXCEPT ![current].tight = TRUE]
    /\ completed("layout")
    /\ UNCHANGED <<figs, current, owner, canvas, saves, shows, files>>

lg_save ==
    /\ begin_step("logo", "save")
    /\ IF ~wants_save(args)
       THEN /\ completed("save")
            /\ UNCHANGED <<saves, files>>
       ELSE IF failure(fn, "save", args) # {}
       THEN /\ \E e \in failure(fn, "save", args) : raised("save", e)
            /\ UNCHANGED <<saves, files>>
       ELSE /\ savefig(args.output_file, args.dpi, FALSE)
            /\ completed("save")
    /\ UNCHANGED <<figs, current, owner, canvas, axes, shows>>

lg_show ==
    /\ begin_step("logo", "show")
    /\ show
    /\ completed("show")
    /\ UNCHANGED <<owner, saves, files>>

\* Control is back in the caller, by return or by the exception: the frame
\* of the call is gone.
call_exit ==
    /\ pc \in {"returned", "raised"}
    /\ pc' = "idle"
    /\ fn' = "none"
    /\ args' = [output_file |-> None]
    /\ owner' = 0
    /\ log' = <<>>
    /\ saves' = <<>>
    /\ shows' = 0
    /\ error' = no_error
    /\ UNCHANGED <<figs, current, canvas, axes, files, ncalls, ts_vars>>


ts_Init ==
    /\ ts_pc = "p"
    /\ ts_p = 0 /\ ts_y = 0 /\ ts_t = 0 /\ ts_s = 0 /\ ts_ret = 0
    /\ sqrt_in = <<>>

rd_Init ==
    /\ pc = "idle"
    /\ fn = "none"
    /\ args = [output_file |-> None]
    /\ figs = {}
    /\ current = 0
    /\ canvas = [f \in {} |-> <<>>]
    /\ axes = [f \in {} |-> new_axes]
    /\ owner = 0
    /\ log = <<>>
    /\ saves = <<>>
    /\ shows = 0
    /\ error = no_error
    /\ files = {}
    /\ ncalls = 0

InitCurve == ts_Init /\ rd_Init /\ ts_x \in {i - 300 : i \in 0..XSpan}

NextCurve ==
    \/ ts_line73
    \/ ts_line74
    \/ ts_line75
    \/ ts_line76
    \/ ts_line77
    \/ ts_line78

SpecCurve == InitCurve /\ [][NextCurve]_vars

RibbonArgs ==
    [background_color : Colors, text_color : TextColors, figsize : Figsizes,
     output_file : Paths, dpi : Dpis]

LogoArgs ==
    [cmap : Cmaps, background_color : Colors, output_file : Paths, dpi : Dpis]

Init == rd_Init /\ ts_Init /\ ts_x = 0

Next ==
    \/ \E a \in RibbonArgs : make_github_ribbon(a)
    \/ rb_figure
    \/ rb_polygon
    \/ rb_text
    \/ rb_dashes
    \/ rb_limits
    \/ rb_save
    \/ rb_show
    \/ \E a \in LogoArgs : make_pyts_logo(a)
    \/ lg_figure
    \/ lg_p
    \/ lg_y
    \/ lg_t
    \/ lg_s
    \/ lg_curve
    \/ lg_fix
    \/ lg_limits
    \/ lg_layout
    \/ lg_save
    \/ lg_show
    \/ call_exit

Spec == Init /\ [][Next]_vars

\* ========================================================================
\* Properties of pyts_time_series (checked under SpecCurve)
\* ========================================================================
outside(x, x_lim) == x < x_lim[1] \/ x > x_lim[2]

C2_ArcZeroOutside ==
    /\ (ts_pc # "p" /\ outside(ts_x, lim_p)) => ts_p = 0
    /\ (ts_pc \notin {"p", "y"} /\ outside(ts_x, lim_y)) => ts_y = 0
    /\ (ts_pc = "s_offset" /\ outside(ts_x, lim_s)) => ts_s = 0
    /\ \A i \in DOMAIN sqrt_in : sqrt_in[i] >= 0
    /\ NaN \notin {ts_p, ts_y, ts_s, ts_ret}

C2_Witness ==
    /\ ts_pc = "s_offset"
    /\ Len(sqrt_in) = 3
    /\ outside(ts_x, lim_p) /\ outside(ts_x, lim_y) /\ outside(ts_x, lim_s)

\* C3: at each breakpoint 0.2, 0.6, 0.775, 0.9 the value of the curve equals
\* the value of the term that ends there and the value of the term that
\* starts there (p, y, the flat t, the s arc, the 0.1 offset, in this order).
C3_ContinuousAtBreakpoints ==
    ts_pc = "done" =>
        /\ ts_x = 200 => (ts_ret = ts_p /\ ts_ret = ts_y)
        /\ ts_x = 600 => (ts_ret = ts_y /\ ts_ret = ts_t)
        /\ ts_x = 775 => (ts_ret = ts_t
                          /\ ts_ret = circle(ts_x, 125, 900, -25, lim_s))
        /\ ts_x = 900 => (ts_ret = circle(ts_x, 125, 900, -25, lim_s)
                          /\ ts_ret = offset(ts_x))

\* ========================================================================
\* Properties of the renderers (checked under Spec)
\* ========================================================================
count(seq, e) == Cardinality({i \in DOMAIN seq : seq[i] = e})

\* C4: a call saves exactly when output_file is not None: no save at all
\* with None, and on return exactly one save, to that path at that dpi.
C4_SaveIffOutputFile ==
    /\ (pc # "idle" /\ args.output_file = None) => saves = <<>>
    /\ Len(saves) <= 1
    /\ \A i \in DOMAIN saves :
          /\ saves[i].path = args.output_file
          /\ saves[i].dpi = args.dpi
          /\ saves[i].path \in files
    /\ (pc = "returned" /\ args.output_file # None) => Len(saves) = 1

C4_Witness ==
    /\ pc = "returned"
    /\ fn = "logo"
    /\ Len(saves) = 1
    /\ args.output_file \in files

\* Drawing 1, axis limits and layout 2, save 3, display 4.
rank(step) ==
    IF step = "show" THEN 4
    ELSE IF step = "save" THEN 3
    ELSE IF step \in {"limits", "layout"} THEN 2
    ELSE 1

C6_NoGlobalState == pc = "idle" => (figs = {} /\ current = 0)

\* C7: a step whose library call raises ends the call there with that
\* error: it is the last step executed, nothing is displayed or saved
\* afterwards, and no step is executed twice.
C7_NoCatchNoRetry ==
    /\ \A i \in DOMAIN log :
          failure(fn, log[i], args) # {} =>
             /\ i = Len(log)
             /\ pc = "raised"
             /\ error.step = log[i]
             /\ error.kind \in failure(fn, log[i], args)
    /\ \A i, j \in DOMAIN log : i # j => log[i] # log[j]
    /\ pc = "raised" =>
          /\ shows = 0
          /\ saves = <<>>
          /\ error.step = log[Len(log)]
          /\ failure(fn, error.step, args) # {}
    /\ pc \notin {"raised", "idle"} => error = no_error

C7_Witness ==
    /\ pc = "raised"
    /\ error = [step |-> "save", kind |-> "OSError"]
    /\ Len(log) > 1

polygons == {a \in UNION {{canvas[f][i] : i \in DOMAIN canvas[f]} : f \in figs} :
                a.kind = "Polygon"}

\* C8 as stated: the ribbon polygon has exactly three vertices, each built
\* from the breakpoints 0.3, 0.4, 0.6.
C8_Triangle ==
    \A a \in polygons :
        /\ Len(a.xy) = 3
        /\ \A i \in DOMAIN a.xy : a.xy[i][1] \in {300, 400, 600}
                                  /\ a.xy[i][2] \in {300, 400, 600}

\* C8 amended: the ribbon polygon has exactly four vertices, (0.3, 0.6),
\* (0.4, 0.6), (0.6, 0.4), (0.6, 0.3): a trapezoid, each vertex built from
\* the breakpoints 0.3, 0.4, 0.6.
C8_Trapezoid ==
    \A a \in polygons :
        a.xy = <<<<300, 600>>, <<400, 600>>, <<600, 400>>, <<600, 300>>>>

C8_Witness == \E a \in polygons : a.part = "ribbon"

parts(f, part) == {i \in DOMAIN canvas[f] : canvas[f][i].part = part}

\* C9 as stated: every letterform stroke has the same width and a round cap.
C9_AllRound ==
    \A f \in figs : \A i, j \in parts(f, "letter") :
        /\ canvas[f][i].lw = canvas[f][j].lw
        /\ canvas[f][i].cap = "round"

\* C9 amended: every letterform stroke has the same width; every one has a
\* round cap except the upper arc of the "s", which has a butt cap.
C9_AllRoundButUpperS ==
    \A f \in figs : \A i, j \in parts(f, "letter") :
        /\ canvas[f][i].lw = canvas[f][j].lw
        /\ canvas[f][i].cap =
              (IF canvas[f][i].name = "arc_upper_s" THEN "butt" ELSE "round")

C9_Witness ==
    \E f \in figs : Cardinality(parts(f, "letter")) = 10

\* C10: every letterform element is added before the gradient curve and has
\* a lower stacking level; the corrective arc and rectangle are added after
\* the curve and have a higher stacking level than the curve and than every
\* letterform element.
C10_Layering ==
    \A f \in figs :
        /\ \A c \in parts(f, "curve") :
              /\ Cardinality(parts(f, "letter")) = 10
              /\ \A i \in parts(f, "letter") :
                    i < c /\ canvas[f][i].zorder < canvas[f][c].zorder
        /\ \A k \in parts(f, "fix") :
              /\ Cardinality(parts(f, "curve")) = 1
              /\ \A c \in parts(f, "curve") :
                    c < k /\ canvas[f][c].zorder < canvas[f][k].zorder
              /\ \A i \in parts(f, "letter") :
                    i < k /\ canvas[f][i].zorder < canvas[f][k].zorder

C10_Witness ==
    \E f \in figs : Cardinality(parts(f, "fix")) = 2

====
